---- MODULE Spec2Model ----
(***************************************************************************)
(* wallet-standard-svelte: the registry-backed wallet stores, the          *)
(* WalletConnection controller with its process-wide connectionPromises    *)
(* table, and the UiWalletConnect helper (wallets.svelte.ts).              *)
(*                                                                         *)
(* JavaScript runs one job at a time: every action below is one            *)
(* synchronous run of a handler, from a call or a promise reaction up to   *)
(* the next await or the end of the callback.                              *)
(***************************************************************************)
EXTENDS Integers, Sequences, FiniteSets, TLC

\* ------------------------------------------------------------ bounds
\* Total capability invocations (connect and disconnect) made by WalletConnection
\* controllers.
MaxCalls == 3
\* Array objects allocated (registry snapshots and store copies).
MaxRefs == 6
\* Total connect capability invocations made by the UiWalletConnect helper.
MaxUiOps == 2
\* connect() calls of the helper that join one pending invocation.
MaxUiJoins == 2

\* ------------------------------------------------------------ values
NULL == "null"

StandardConnect == "standard:connect"
StandardDisconnect == "standard:disconnect"
StandardEvents == "standard:events"

\* Provider handles (Wallet objects, compared by identity).  w1 and w2 are two
\* instances carrying the same name, as after a provider re-registers itself.
Wallets == {"w1", "w2", "w3"}

Name(w) == IF w = "w3" THEN "Basic" ELSE "Acme"

Features(w) ==
    CASE w = "w1" -> {StandardConnect, StandardDisconnect, StandardEvents}
      [] w = "w2" -> {StandardConnect}
      [] OTHER    -> {StandardEvents}

Names == {Name(w) : w \in Wallets}

\* WalletConnection instances.
Ctrls == {"A", "B"}

\* What a connect capability may resolve with ({accounts}) or reject with.
AccountLists == {<< >>, <<"acc1", "acc2">>}
ConnectErrors == {"connectErr"}
DisconnectErrors == {"disconnectErr"}
NotFoundError == "not found in global registry"
FeatureUnimplemented == "feature unimplemented"

VARIABLES
    \* WalletConnection fields, one value per controller
    wallet, account, connecting, connected, error,
    \* the module-level WeakMap<Wallet, Promise>: wallet -> index in ops, 0 = no entry
    connectionPromises,
    \* connect capability invocations made so far and the state of their promise chain
    ops,
    \* where each controller's connect() call is suspended
    pc,
    \* disconnect capability invocations made so far
    dops,
    \* the registry: its snapshot, and the identity of the array get() returns
    registered, regRef, nextRef,
    \* registry listeners and per-wallet 'change' listeners that are subscribed
    listeners, changeListeners,
    \* WalletsStore fields
    wallets, disposers, eventDisposers,
    \* UiWalletConnect fields, its wallet's name, and its invocations
    uiConnecting, uiError, connectionPromise, uiName, uops,
    \* ui-registry's cache: wallet -> the UiWallet handle created for it, 0 = none
    uiCache,
    \* UiWalletsStore fields, the registry listeners it subscribed, and the array
    \* the last useWallets() call returned
    uiWallets, uiDisposers, uiListeners, useResult,
    \* how many times loadWallets() assigned a newly mapped array to `wallets`
    uiLoads,
    \* UiWalletDisconnect fields (`disconnecting`, `error`, `disconnectionPromise`)
    \* and its invocations; the helper is for the UiWallet named uiName
    uiDisconnecting, uiDisError, disconnectionPromise, udops,
    \* the step just taken: the handler that ran, the calls it made on the wallets
    \* and the registry, in order, and how the caller's promise settled in it
    ev

connVars == <<wallet, account, connecting, connected, error, connectionPromises,
              ops, pc, dops>>
regVars == <<registered, regRef, nextRef, listeners, changeListeners>>
storeVars == <<wallets, disposers, eventDisposers>>
uiVars == <<uiConnecting, uiError, connectionPromise, uiName, uops, uiCache>>
uiStoreVars == <<uiWallets, uiDisposers, uiListeners, useResult, uiLoads>>
uiDisVars == <<uiDisconnecting, uiDisError, disconnectionPromise, udops>>
vars == <<connVars, regVars, storeVars, uiVars, uiStoreVars, uiDisVars, ev>>

\* ------------------------------------------------------------ the step record
NoEv ==
    [act |-> "init", c |-> "-", w |-> NULL, calls |-> << >>, out |-> "none",
     val |-> NULL, ok |-> FALSE, accounts |-> << >>, cause |-> NULL,
     solo |-> FALSE, own |-> FALSE, op |-> 0, callers |-> 0]

Ev(act, c, w) == [NoEv EXCEPT !.act = act, !.c = c, !.w = w]

\* Whether the step recorded in e made the call (a pair <<what, on what>>).
Called(e, call) == \E i \in 1..Len(e.calls) : e.calls[i] = call

\* ------------------------------------------------------------ WalletConnection
\* Idle: nothing connected, nothing in progress, no error recorded.
Idle(c) ==
    /\ wallet[c] = NULL
    /\ account[c] = NULL
    /\ ~connecting[c]
    /\ ~connected[c]
    /\ error[c] = NULL

\* `name in wallet.features`
HasFeatureAlways(w, f) == TRUE
HasFeature(w, f) == f \in Features(w)

\* connectionPromises.get(wallet): the pending operation's index, 0 when absent
ExistingPromiseNever(w) == 0
ExistingPromise(w) == connectionPromises[w]

\* result.accounts[0] || null
LastAccount(accounts) == IF Len(accounts) > 0 THEN accounts[Len(accounts)] ELSE NULL
FirstAccount(accounts) == IF Len(accounts) > 0 THEN accounts[1] ELSE NULL

\* catch (error) { this.error = error }: the value stored in the error field
CaughtErrorDropped(cause) == NULL
CaughtError(cause) == cause

\* How the promise returned by connect() settles once the awaited operation has
\* settled: the try/catch stores a failure and the async function returns normally.
ConnectReturnRethrows(ok) == IF ok THEN "resolved" ELSE "rejected"
ConnectReturn(ok) == "resolved"

PendingDisconnects(c) == {i \in 1..Len(dops) : dops[i].c = c /\ dops[i].phase = "pending"}

NoPc == [at |-> "none", op |-> 0, w |-> NULL, solo |-> FALSE]

\* A settled operation that no suspended connect() awaits any more is unreachable:
\* its record is collected, keeping its slot (the count of invocations made).
Collected == [w |-> NULL, owner |-> "-", phase |-> "collected", ok |-> FALSE,
              accounts |-> << >>, cause |-> NULL]

Release(c) ==
    IF \E d \in Ctrls \ {c} : pc[d].op = pc[c].op
      THEN ops
      ELSE [ops EXCEPT ![pc[c].op] = Collected]

\* connect() while this controller is already connecting: returns at once.
ConnectWhileConnecting(c, w) ==
    /\ connecting[c]
    /\ ev' = [Ev("connect", c, NULL) EXCEPT !.out = "resolved"]
    /\ UNCHANGED connVars

\* The disconnect() calls of c that are still awaiting their capability, marked
\* with the wallet of a connect() call that arrived after them.
Overtaken(c, w) ==
    [i \in 1..Len(dops) |->
        IF dops[i].c = c /\ dops[i].phase = "pending"
          THEN [dops[i] EXCEPT !.next = w]
          ELSE dops[i]]

\* connect() finding a pending operation for the wallet: awaits that one.
ConnectAdopt(c, w) ==
    /\ ~connecting[c]
    /\ ExistingPromise(w) # 0
    /\ connecting' = [connecting EXCEPT ![c] = TRUE]
    /\ error' = [error EXCEPT ![c] = NULL]
    /\ pc' = [pc EXCEPT ![c] = [at |-> "adopt", op |-> ExistingPromise(w), w |-> w,
                                solo |-> Idle(c) /\ PendingDisconnects(c) = {}]]
    /\ ev' = [Ev("connect", c, w) EXCEPT !.out = "pending",
                                         !.solo = Idle(c) /\ PendingDisconnects(c) = {}]
    /\ dops' = Overtaken(c, w)
    /\ UNCHANGED <<wallet, account, connected, connectionPromises, ops>>

\* connect() invoking the wallet's connect capability and registering the promise.
ConnectInvoke(c, w) ==
    /\ ~connecting[c]
    /\ ExistingPromise(w) = 0
    /\ HasFeature(w, StandardConnect)
    /\ Len(ops) + Len(dops) < MaxCalls
    /\ connecting' = [connecting EXCEPT ![c] = TRUE]
    /\ error' = [error EXCEPT ![c] = NULL]
    /\ ops' = Append(ops, [w |-> w, owner |-> c, phase |-> "pending", ok |-> FALSE,
                           accounts |-> << >>, cause |-> NULL])
    /\ connectionPromises' = [connectionPromises EXCEPT ![w] = Len(ops) + 1]
    /\ pc' = [pc EXCEPT ![c] = [at |-> "own", op |-> Len(ops) + 1, w |-> w,
                                solo |-> Idle(c) /\ PendingDisconnects(c) = {}]]
    /\ ev' = [Ev("connect", c, w) EXCEPT !.out = "pending",
                                         !.calls = <<<<StandardConnect, w>>>>,
                                         !.own = TRUE,
                                         !.solo = Idle(c) /\ PendingDisconnects(c) = {}]
    /\ dops' = Overtaken(c, w)
    /\ UNCHANGED <<wallet, account, connected>>

\* connect() on a wallet without the connect capability, were it to count the
\* wallet as connected.
ConnectNoFeatureConnects(c, w) ==
    /\ ~connecting[c]
    /\ ExistingPromise(w) = 0
    /\ ~HasFeature(w, StandardConnect)
    /\ connecting' = [connecting EXCEPT ![c] = FALSE]
    /\ error' = [error EXCEPT ![c] = NULL]
    /\ wallet' = [wallet EXCEPT ![c] = w]
    /\ connected' = [connected EXCEPT ![c] = TRUE]
    /\ ev' = [Ev("connect", c, w) EXCEPT !.out = "resolved",
                                         !.solo = Idle(c) /\ PendingDisconnects(c) = {}]
    /\ UNCHANGED <<account, connectionPromises, ops, pc, dops>>

\* connect() on a wallet without the connect capability: nothing to await, the
\* finally block runs in the same job.
ConnectNoFeature(c, w) ==
    /\ ~connecting[c]
    /\ ExistingPromise(w) = 0
    /\ ~HasFeature(w, StandardConnect)
    /\ connecting' = [connecting EXCEPT ![c] = FALSE]
    /\ error' = [error EXCEPT ![c] = NULL]
    /\ ev' = [Ev("connect", c, w) EXCEPT !.out = "resolved",
                                         !.solo = Idle(c) /\ PendingDisconnects(c) = {}]
    /\ UNCHANGED <<wallet, account, connected, connectionPromises, ops, pc, dops>>

Connect(c, w) ==
    \/ ConnectWhileConnecting(c, w)
    \/ ConnectAdopt(c, w)
    \/ ConnectInvoke(c, w)
    \/ ConnectNoFeature(c, w)

\* The wallet fulfils the promise its connect capability returned and the
\* .then((result) => {...}) callback runs.  (Nothing reads the promise between
\* the two, so they are one step.)
ConnectThen(k, accounts) ==
    /\ ops[k].phase = "pending"
    /\ LET c == ops[k].owner IN
        /\ wallet' = [wallet EXCEPT ![c] = ops[k].w]
        /\ account' = [account EXCEPT ![c] = FirstAccount(accounts)]
        /\ connected' = [connected EXCEPT ![c] = TRUE]
        /\ ev' = [Ev("connect.then", c, ops[k].w) EXCEPT !.ok = TRUE,
                          !.accounts = accounts, !.solo = pc[c].solo]
    /\ ops' = [ops EXCEPT ![k].phase = "then", ![k].ok = TRUE, ![k].accounts = accounts]
    /\ UNCHANGED <<connecting, error, connectionPromises, pc, dops>>

\* The wallet rejects the promise its connect capability returned: the then
\* callback is skipped.
ConnectReject(k, cause) ==
    /\ ops[k].phase = "pending"
    /\ ops' = [ops EXCEPT ![k].phase = "rejected", ![k].cause = cause]
    /\ ev' = [Ev("connect.reject", ops[k].owner, ops[k].w) EXCEPT !.cause = cause]
    /\ UNCHANGED <<wallet, account, connecting, connected, error, connectionPromises,
                   pc, dops>>

\* The finally callback, were it to leave the table entry in place.
ConnectFinallyKeepsEntry(k) ==
    /\ ops[k].phase \in {"then", "rejected"}
    /\ ops' = [ops EXCEPT ![k].phase = "done"]
    /\ ev' = [Ev("connect.finally", ops[k].owner, ops[k].w) EXCEPT !.ok = ops[k].ok]
    /\ UNCHANGED <<wallet, account, connecting, connected, error, connectionPromises,
                   pc, dops>>

\* .finally(() => connectionPromises.delete(wallet)): after the then callback, or
\* directly after a rejection (which skips the then callback).
ConnectFinally(k) ==
    /\ ops[k].phase \in {"then", "rejected"}
    /\ connectionPromises' = [connectionPromises EXCEPT ![ops[k].w] = 0]
    /\ ops' = [ops EXCEPT ![k].phase = "done"]
    /\ ev' = [Ev("connect.finally", ops[k].owner, ops[k].w) EXCEPT !.ok = ops[k].ok]
    /\ UNCHANGED <<wallet, account, connecting, connected, error, pc, dops>>

\* The invoker's resumption, were connect() to have no finally block.
ResumeOwnerStaysConnecting(c) ==
    /\ pc[c].at = "own"
    /\ ops[pc[c].op].phase = "done"
    /\ LET o == ops[pc[c].op] IN
        /\ error' = [error EXCEPT ![c] = IF o.ok THEN @ ELSE CaughtError(o.cause)]
        /\ ev' = [Ev("connect.return", c, o.w) EXCEPT !.ok = o.ok, !.own = TRUE,
                          !.accounts = o.accounts, !.cause = o.cause,
                          !.solo = pc[c].solo, !.out = ConnectReturn(o.ok)]
    /\ pc' = [pc EXCEPT ![c] = NoPc]
    /\ ops' = Release(c)
    /\ UNCHANGED <<wallet, account, connecting, connected, connectionPromises, dops>>

\* `await connectionPromise` resumes in the controller that invoked the capability.
ResumeOwner(c) ==
    /\ pc[c].at = "own"
    /\ ops[pc[c].op].phase = "done"
    /\ LET o == ops[pc[c].op] IN
        /\ error' = [error EXCEPT ![c] = IF o.ok THEN @ ELSE CaughtError(o.cause)]
        /\ ev' = [Ev("connect.return", c, o.w) EXCEPT !.ok = o.ok, !.own = TRUE,
                          !.accounts = o.accounts, !.cause = o.cause,
                          !.solo = pc[c].solo, !.out = ConnectReturn(o.ok),
                          !.val = IF ConnectReturn(o.ok) = "rejected" THEN o.cause ELSE NULL]
    /\ connecting' = [connecting EXCEPT ![c] = FALSE]
    /\ pc' = [pc EXCEPT ![c] = NoPc]
    /\ ops' = Release(c)
    /\ UNCHANGED <<wallet, account, connected, connectionPromises, dops>>

\* The adopter's resumption, were it to await the operation without taking its result.
ResumeAdopterIgnoresResult(c) ==
    /\ pc[c].at = "adopt"
    /\ ops[pc[c].op].phase = "done"
    /\ LET o == ops[pc[c].op] IN
        /\ error' = [error EXCEPT ![c] = IF o.ok THEN @ ELSE CaughtError(o.cause)]
        /\ ev' = [Ev("connect.return", c, pc[c].w) EXCEPT !.ok = o.ok,
                          !.accounts = o.accounts, !.cause = o.cause,
                          !.solo = pc[c].solo, !.out = ConnectReturn(o.ok)]
    /\ connecting' = [connecting EXCEPT ![c] = FALSE]
    /\ pc' = [pc EXCEPT ![c] = NoPc]
    /\ ops' = Release(c)
    /\ UNCHANGED <<wallet, account, connected, connectionPromises, dops>>

\* `await existingPromise` resumes in a controller that adopted the operation.
ResumeAdopter(c) ==
    /\ pc[c].at = "adopt"
    /\ ops[pc[c].op].phase = "done"
    /\ LET o == ops[pc[c].op] IN
        /\ wallet' = [wallet EXCEPT ![c] = IF o.ok THEN pc[c].w ELSE @]
        /\ account' = [account EXCEPT ![c] = IF o.ok THEN FirstAccount(o.accounts) ELSE @]
        /\ connected' = [connected EXCEPT ![c] = IF o.ok THEN TRUE ELSE @]
        /\ error' = [error EXCEPT ![c] = IF o.ok THEN @ ELSE CaughtError(o.cause)]
        /\ ev' = [Ev("connect.return", c, pc[c].w) EXCEPT !.ok = o.ok,
                          !.accounts = o.accounts, !.cause = o.cause,
                          !.solo = pc[c].solo, !.out = ConnectReturn(o.ok),
                          !.val = IF ConnectReturn(o.ok) = "rejected" THEN o.cause ELSE NULL]
    /\ connecting' = [connecting EXCEPT ![c] = FALSE]
    /\ pc' = [pc EXCEPT ![c] = NoPc]
    /\ ops' = Release(c)
    /\ UNCHANGED <<connectionPromises, dops>>

\* "Clear connection state" (the four assignments that end disconnect's try block)
ClearConnectionKeepsAccount(c) ==
    /\ wallet' = [wallet EXCEPT ![c] = NULL]
    /\ connected' = [connected EXCEPT ![c] = FALSE]
    /\ error' = [error EXCEPT ![c] = NULL]
    /\ UNCHANGED account
ClearConnectionKeepsWallet(c) ==
    /\ account' = [account EXCEPT ![c] = NULL]
    /\ connected' = [connected EXCEPT ![c] = FALSE]
    /\ error' = [error EXCEPT ![c] = NULL]
    /\ UNCHANGED wallet
ClearConnection(c) ==
    /\ wallet' = [wallet EXCEPT ![c] = NULL]
    /\ account' = [account EXCEPT ![c] = NULL]
    /\ connected' = [connected EXCEPT ![c] = FALSE]
    /\ error' = [error EXCEPT ![c] = NULL]

\* A disconnect() that gets past its first line acts on the controller while a
\* connect() of the same controller may be suspended.
Disturb(c) == pc' = [pc EXCEPT ![c].solo = FALSE]

\* disconnect() with no wallet, were it to reset the error field on its way out.
DisconnectNoWalletClearsError(c) ==
    /\ wallet[c] = NULL
    /\ error' = [error EXCEPT ![c] = NULL]
    /\ ev' = [Ev("disconnect", c, NULL) EXCEPT !.out = "resolved"]
    /\ UNCHANGED <<wallet, account, connecting, connected, connectionPromises, ops, pc, dops>>

\* disconnect() with no wallet: returns at once.
DisconnectNoWallet(c) ==
    /\ wallet[c] = NULL
    /\ ev' = [Ev("disconnect", c, NULL) EXCEPT !.out = "resolved"]
    /\ UNCHANGED connVars

\* disconnect() invoking the wallet's disconnect capability and awaiting it.
DisconnectInvoke(c) ==
    /\ wallet[c] # NULL
    /\ HasFeature(wallet[c], StandardDisconnect)
    /\ Len(ops) + Len(dops) < MaxCalls
    /\ dops' = Append(dops, [c |-> c, w |-> wallet[c], phase |-> "pending", next |-> NULL])
    /\ Disturb(c)
    /\ ev' = [Ev("disconnect", c, wallet[c]) EXCEPT !.out = "pending",
                         
                          !.calls = <<<<StandardDisconnect, wallet[c]>>>>]
    /\ UNCHANGED <<wallet, account, connecting, connected, error, connectionPromises, ops>>

\* disconnect() on a wallet without the disconnect capability: clears at once.
DisconnectNoFeature(c) ==
    /\ wallet[c] # NULL
    /\ ~HasFeature(wallet[c], StandardDisconnect)
    /\ ClearConnection(c)
    /\ Disturb(c)
    /\ ev' = [Ev("disconnect", c, wallet[c]) EXCEPT !.out = "resolved", !.ok = TRUE]
    /\ UNCHANGED <<connecting, connectionPromises, ops, dops>>

Disconnect(c) ==
    \/ DisconnectNoWallet(c)
    \/ DisconnectInvoke(c)
    \/ DisconnectNoFeature(c)

\* The wallet settles the promise its disconnect capability returned and
\* `await disconnectFeature.disconnect()` resumes: the rest of the try block, or
\* the catch block.  (Nothing reads the promise between the two, so they are one step.)
DisconnectReturn(i, ok, cause) ==
    /\ dops[i].phase = "pending"
    /\ dops' = [dops EXCEPT ![i] = [c |-> "-", w |-> NULL, phase |-> "done", next |-> NULL]]
    /\ IF ok
         THEN ClearConnection(dops[i].c)
         ELSE /\ error' = [error EXCEPT ![dops[i].c] = CaughtError(cause)]
              /\ UNCHANGED <<wallet, account, connected>>
    /\ Disturb(dops[i].c)
    /\ ev' = [Ev("disconnect.return", dops[i].c, dops[i].w) EXCEPT !.ok = ok,
                          !.cause = cause, !.out = "resolved"]
    /\ UNCHANGED <<connecting, connectionPromises, ops>>

\* A WalletConnection step touches neither the registry, the stores nor the helper.
ConnOnly == UNCHANGED <<regVars, storeVars, uiVars, uiStoreVars, uiDisVars>>

ConnNext ==
    \/ \E c \in Ctrls, w \in Wallets : ConnectWhileConnecting(c, w) /\ ConnOnly
    \/ \E c \in Ctrls, w \in Wallets : ConnectAdopt(c, w) /\ ConnOnly
    \/ \E c \in Ctrls, w \in Wallets : ConnectInvoke(c, w) /\ ConnOnly
    \/ \E c \in Ctrls, w \in Wallets : ConnectNoFeature(c, w) /\ ConnOnly
    \/ \E k \in 1..Len(ops), l \in AccountLists : ConnectThen(k, l) /\ ConnOnly
    \/ \E k \in 1..Len(ops), e \in ConnectErrors : ConnectReject(k, e) /\ ConnOnly
    \/ \E k \in 1..Len(ops) : ConnectFinally(k) /\ ConnOnly
    \/ \E c \in Ctrls : ResumeOwner(c) /\ ConnOnly
    \/ \E c \in Ctrls : ResumeAdopter(c) /\ ConnOnly
    \/ \E c \in Ctrls : DisconnectNoWallet(c) /\ ConnOnly
    \/ \E c \in Ctrls : DisconnectInvoke(c) /\ ConnOnly
    \/ \E c \in Ctrls : DisconnectNoFeature(c) /\ ConnOnly
    \/ \E i \in 1..Len(dops) : DisconnectReturn(i, TRUE, NULL) /\ ConnOnly
    \/ \E i \in 1..Len(dops), e \in DisconnectErrors : DisconnectReturn(i, FALSE, e) /\ ConnOnly

\* new WalletConnection() for every controller; nothing in flight.
ConnInit ==
    /\ wallet = [c \in Ctrls |-> NULL]
    /\ account = [c \in Ctrls |-> NULL]
    /\ connecting = [c \in Ctrls |-> FALSE]
    /\ connected = [c \in Ctrls |-> FALSE]
    /\ error = [c \in Ctrls |-> NULL]
    /\ connectionPromises = [w \in Wallets |-> 0]
    /\ ops = << >>
    /\ pc = [c \in Ctrls |-> NoPc]
    /\ dops = << >>

\* An empty registry nobody listens to.
RegInit ==
    /\ registered = << >>
    /\ regRef = 1
    /\ nextRef = 2
    /\ listeners = {}
    /\ changeListeners = [w \in Wallets |-> 0]

\* No WalletsStore has been constructed.
StoreInitEmpty ==
    /\ wallets = [ref |-> 0, elems |-> << >>]
    /\ disposers = << >>
    /\ eventDisposers = << >>

\* A UiWalletConnect helper that is never called.
UiInitEmpty ==
    /\ uiConnecting = FALSE
    /\ uiError = NULL
    /\ connectionPromise = 0
    /\ uiName = "Acme"
    /\ uops = << >>
    /\ uiCache = [w \in Wallets |-> 0]

\* No UiWalletsStore has been constructed and useWallets() was never called.
UiStoreInitEmpty ==
    /\ uiWallets = << >>
    /\ uiDisposers = << >>
    /\ uiListeners = {}
    /\ useResult = << >>
    /\ uiLoads = 0

\* A UiWalletDisconnect helper that is never called.
UiDisInitEmpty ==
    /\ uiDisconnecting = FALSE
    /\ uiDisError = NULL
    /\ disconnectionPromise = 0
    /\ udops = << >>

\* WalletConnection controllers and the wallets they talk to.
Init ==
    /\ ConnInit /\ RegInit /\ StoreInitEmpty /\ UiInitEmpty /\ UiStoreInitEmpty
    /\ UiDisInitEmpty /\ ev = NoEv

Next == ConnNext

Spec == Init /\ [][Next]_vars

\* The wallet settles the k-th connect invocation, one way or the other.
Settles(k) ==
    /\ k \in 1..Len(ops)
    /\ \/ \E l \in AccountLists : ConnectThen(k, l)
       \/ \E e \in ConnectErrors : ConnectReject(k, e)
    /\ ConnOnly

\* Every invocation eventually settles (the premise of the liveness claim), and the
\* event loop runs every promise reaction that is ready: the finally callback of a
\* settled chain and the continuations of the connect() calls awaiting it.
ConnFairness ==
    /\ \A k \in 1..MaxCalls : WF_vars(Settles(k))
    /\ \A k \in 1..MaxCalls : WF_vars(k \in 1..Len(ops) /\ ConnectFinally(k) /\ ConnOnly)
    /\ \A c \in Ctrls : WF_vars(ResumeOwner(c) /\ ConnOnly)
    /\ \A c \in Ctrls : WF_vars(ResumeAdopter(c) /\ ConnOnly)

\* The controllers, with wallets that settle every invocation.
LiveSpec == Init /\ [][Next]_vars /\ ConnFairness

\* ------------------------------------------------------------ the registry
Range(q) == {q[i] : i \in 1..Len(q)}

Without(q, x) == SelectSeq(q, LAMBDA y : y # x)

\* Snapshots the registry may hold when a store is constructed.
InitSnapshots == {<< >>, <<"w1", "w3">>}

\* get(): the registry's current array
Get(ref, snapshot) == [ref |-> ref, elems |-> snapshot]

\* ------------------------------------------------------------ WalletsStore
\* The store has its registry listeners: constructed and not destroyed.
Live == disposers # << >>

\* `this.wallets = get()` in the registry callbacks
StoreReadStale(snapshot, current) == current
StoreRead(snapshot, current) == snapshot

\* `this.wallets = [...this.wallets]`: a new array with the same elements
CopyKeepsArray(current, fresh) == current
Copy(current, fresh) == [ref |-> fresh, elems |-> current.elems]

\* The wallets of a sequence that expose the events feature, in order.
WithEvents(q) == SelectSeq(q, LAMBDA w : HasFeature(w, StandardEvents))

Count(q, x) == Cardinality({i \in 1..Len(q) : q[i] = x})

\* setupEventListeners() without lines 569-570: the listeners held stay subscribed.
SetupEventListenersKeepsOld(ws) ==
    /\ eventDisposers' = eventDisposers \o WithEvents(ws.elems)
    /\ changeListeners' =
          [w \in Wallets |-> changeListeners[w] + Count(WithEvents(ws.elems), w)]

\* setupEventListeners(): every disposer held is called, then each wallet of the
\* list that has the events feature gets one 'change' listener.
SetupEventListeners(ws) ==
    /\ eventDisposers' = WithEvents(ws.elems)
    /\ changeListeners' =
          [w \in Wallets |->
              LET kept == IF changeListeners[w] > Count(eventDisposers, w)
                            THEN changeListeners[w] - Count(eventDisposers, w)
                            ELSE 0
              IN  kept + Count(WithEvents(ws.elems), w)]

SetupCalls(ws) ==
    [i \in 1..Len(eventDisposers) |-> <<"dispose", eventDisposers[i]>>]
      \o [i \in 1..Len(WithEvents(ws.elems)) |-> <<StandardEvents, WithEvents(ws.elems)[i]>>]

\* A registry callback of the store: on('register', ...) and on('unregister', ...)
\* have the same body.
OnRegistryEvent(kind) ==
    IF kind \in listeners
      THEN /\ wallets' = StoreRead(Get(regRef', registered'), wallets)
           /\ SetupEventListeners(wallets')
           /\ ev' = [Ev(kind, "-", NULL) EXCEPT
                        !.calls = <<<<"get", "registry">>>> \o SetupCalls(wallets')]
           /\ UNCHANGED <<disposers, listeners>>
      ELSE /\ ev' = Ev(kind, "-", NULL)
           /\ UNCHANGED <<storeVars, listeners, changeListeners>>

\* A wallet registers itself: the registry adds it and fires 'register'.
Register(w) ==
    /\ w \notin Range(registered)
    /\ nextRef <= MaxRefs
    /\ registered' = Append(registered, w)
    /\ regRef' = nextRef
    /\ nextRef' = nextRef + 1
    /\ OnRegistryEvent("register")

\* A wallet is removed: the registry drops it and fires 'unregister'.
Unregister(w) ==
    /\ w \in Range(registered)
    /\ nextRef <= MaxRefs
    /\ registered' = Without(registered, w)
    /\ regRef' = nextRef
    /\ nextRef' = nextRef + 1
    /\ OnRegistryEvent("unregister")

\* A wallet's events feature fires 'change': each listener of the store on that
\* wallet reassigns the list.
Change(w) ==
    /\ HasFeature(w, StandardEvents)
    /\ nextRef <= MaxRefs
    /\ IF changeListeners[w] > 0
         THEN /\ wallets' = Copy(wallets, nextRef + changeListeners[w] - 1)
              /\ nextRef' = nextRef + changeListeners[w]
         ELSE UNCHANGED <<wallets, nextRef>>
    /\ ev' = Ev("change", "-", w)
    /\ UNCHANGED <<registered, regRef, listeners, changeListeners, disposers,
                   eventDisposers>>

\* `this.disposers = []; this.eventDisposers = []`: what a list holds after destroy()
EmptiedKept(held) == held
Emptied(held) == << >>

\* destroy(): every disposer is called, then both lists are emptied.
Destroy ==
    /\ listeners' = listeners \ Range(disposers)
    /\ changeListeners' =
          [w \in Wallets |->
              IF changeListeners[w] > Count(eventDisposers, w)
                THEN changeListeners[w] - Count(eventDisposers, w)
                ELSE 0]
    /\ disposers' = Emptied(disposers)
    /\ eventDisposers' = Emptied(eventDisposers)
    /\ ev' = [Ev("destroy", "-", NULL) EXCEPT
                 !.calls = [i \in 1..Len(disposers) |-> <<"dispose", disposers[i]>>]
                             \o [i \in 1..Len(eventDisposers) |->
                                    <<"dispose", eventDisposers[i]>>]]
    /\ UNCHANGED <<registered, regRef, nextRef, wallets>>

\* new WalletsStore(): the list is read, the two registry listeners are added and
\* the 'change' listeners are set up.
StoreInit ==
    /\ registered \in InitSnapshots
    /\ regRef = 1
    /\ nextRef = 2
    /\ wallets = Get(regRef, registered)
    /\ disposers = <<"register", "unregister">>
    /\ listeners = {"register", "unregister"}
    /\ eventDisposers = WithEvents(registered)
    /\ changeListeners = [w \in Wallets |-> Count(WithEvents(registered), w)]
    /\ ev = [NoEv EXCEPT !.calls = <<<<"get", "registry">>, <<"on", "register">>,
                                      <<"on", "unregister">>>>
                                    \o [i \in 1..Len(WithEvents(registered)) |->
                                          <<StandardEvents, WithEvents(registered)[i]>>]]

StoreOnly == UNCHANGED <<connVars, uiVars, uiStoreVars, uiDisVars>>

StoreNext ==
    \/ \E w \in Wallets : Register(w) /\ StoreOnly
    \/ \E w \in Wallets : Unregister(w) /\ StoreOnly
    \/ \E w \in Wallets : Change(w) /\ StoreOnly
    \/ Destroy /\ StoreOnly

\* A WalletsStore over a registry whose wallets come, go and change.
StoreSpecInit == StoreInit /\ ConnInit /\ UiInitEmpty /\ UiStoreInitEmpty /\ UiDisInitEmpty

StoreSpec == StoreSpecInit /\ [][StoreNext]_vars

\* ------------------------------------------------------------ UiWalletConnect
\* globalWallets.find(w => w.name === this.uiWallet.name): the first wallet of the
\* snapshot with the name, NULL when there is none
FindWalletAnyName(snapshot, name) == IF snapshot = << >> THEN NULL ELSE snapshot[1]
FindWalletLast(snapshot, name) ==
    IF \E i \in 1..Len(snapshot) : Name(snapshot[i]) = name
      THEN snapshot[CHOOSE i \in 1..Len(snapshot) :
                      /\ Name(snapshot[i]) = name
                      /\ \A j \in (i + 1)..Len(snapshot) : Name(snapshot[j]) # name]
      ELSE NULL
FindWallet(snapshot, name) ==
    IF \E i \in 1..Len(snapshot) : Name(snapshot[i]) = name
      THEN snapshot[CHOOSE i \in 1..Len(snapshot) :
                      /\ Name(snapshot[i]) = name
                      /\ \A j \in 1..(i - 1) : Name(snapshot[j]) # name]
      ELSE NULL

\* getOrCreateUiWalletForStandardWallet: the cached handle of the wallet, or a new one
NextHandle == 1 + Cardinality({w \in Wallets : uiCache[w] # 0})
GetOrCreateUiWallet(w) == IF uiCache[w] # 0 THEN uiCache ELSE [uiCache EXCEPT ![w] = NextHandle]

\* connect() while a connectionPromise is held, were it to invoke the capability anew.
UiConnectPendingReinvokes ==
    /\ connectionPromise # 0
    /\ Len(uops) < MaxUiOps
    /\ uops' = Append(uops, [w |-> uops[connectionPromise].w, phase |-> "pending",
                             ok |-> FALSE, accounts |-> << >>, cause |-> NULL,
                             callers |-> 1])
    /\ connectionPromise' = Len(uops) + 1
    /\ ev' = [Ev("ui.connect", "ui", uops[connectionPromise].w) EXCEPT
                 !.out = "pending", !.own = TRUE, !.op = Len(uops) + 1,
                 !.calls = <<<<StandardConnect, uops[connectionPromise].w>>>>]
    /\ UNCHANGED <<regVars, uiConnecting, uiError, uiName, uiCache>>

\* connect() while a connectionPromise is held: that promise is returned, so the
\* call settles as the held promise does.
UiConnectPending ==
    /\ connectionPromise # 0
    /\ uops[connectionPromise].callers < 1 + MaxUiJoins
    /\ uops' = [uops EXCEPT ![connectionPromise].callers = @ + 1]
    /\ ev' = [Ev("ui.connect", "ui", uops[connectionPromise].w) EXCEPT
                 !.out = "pending", !.op = connectionPromise]
    /\ UNCHANGED <<regVars, uiConnecting, uiError, connectionPromise, uiName, uiCache>>

\* connect() finding no wallet of its name in the registry: throws.
UiConnectNotFound ==
    /\ connectionPromise = 0
    /\ FindWallet(registered, uiName) = NULL
    /\ uiConnecting' = FALSE
    /\ uiError' = NotFoundError
    /\ ev' = [Ev("ui.connect", "ui", NULL) EXCEPT !.out = "rejected", !.val = NotFoundError,
                 !.calls = <<<<"get", "registry">>>>]
    /\ UNCHANGED <<regVars, connectionPromise, uiName, uops, uiCache>>

\* connect() whose wallet handle does not list the connect feature:
\* getWalletFeature throws after connecting was set.
UiConnectNoFeature ==
    /\ connectionPromise = 0
    /\ FindWallet(registered, uiName) # NULL
    /\ ~HasFeature(FindWallet(registered, uiName), StandardConnect)
    /\ uiConnecting' = TRUE
    /\ uiError' = NULL
    /\ uiCache' = GetOrCreateUiWallet(FindWallet(registered, uiName))
    /\ ev' = [Ev("ui.connect", "ui", FindWallet(registered, uiName)) EXCEPT
                 !.out = "rejected", !.val = FeatureUnimplemented,
                 !.calls = <<<<"get", "registry">>>>]
    /\ UNCHANGED <<regVars, connectionPromise, uiName, uops>>

\* connect() invoking the connect capability of the wallet it resolved.
UiConnectInvoke ==
    /\ connectionPromise = 0
    /\ FindWallet(registered, uiName) # NULL
    /\ HasFeature(FindWallet(registered, uiName), StandardConnect)
    /\ Len(uops) < MaxUiOps
    /\ uiConnecting' = TRUE
    /\ uiError' = NULL
    /\ uiCache' = GetOrCreateUiWallet(FindWallet(registered, uiName))
    /\ uops' = Append(uops, [w |-> FindWallet(registered, uiName), phase |-> "pending",
                             ok |-> FALSE, accounts |-> << >>, cause |-> NULL,
                             callers |-> 1])
    /\ connectionPromise' = Len(uops) + 1
    /\ ev' = [Ev("ui.connect", "ui", FindWallet(registered, uiName)) EXCEPT
                 !.out = "pending", !.own = TRUE, !.op = Len(uops) + 1,
                 !.calls = <<<<"get", "registry">>,
                             <<StandardConnect, FindWallet(registered, uiName)>>>>]
    /\ UNCHANGED <<regVars, uiName>>

\* The wallet settles the promise: .then maps the accounts, or .catch stores the
\* error and rethrows.
UiConnectSettle(k, ok, accounts, cause) ==
    /\ uops[k].phase = "pending"
    /\ uops' = [uops EXCEPT ![k].phase = "settled", ![k].ok = ok,
                            ![k].accounts = accounts, ![k].cause = cause]
    /\ uiError' = IF ok THEN uiError ELSE CaughtError(cause)
    /\ ev' = [Ev("ui.connect.settle", "ui", uops[k].w) EXCEPT !.ok = ok,
                 !.accounts = accounts, !.cause = cause, !.op = k]
    /\ UNCHANGED <<regVars, uiConnecting, connectionPromise, uiName, uiCache>>

\* A settled promise chain no call awaits any more is unreachable: its record is
\* collected, keeping its slot (the count of invocations made).
UiCollected == [w |-> NULL, phase |-> "collected", ok |-> FALSE, accounts |-> << >>,
                cause |-> NULL, callers |-> 0]

\* .finally(() => {...}): the helper is released, and the promise chain settles,
\* and with it the promise of every connect() call that was handed it.  (No code
\* of the helper runs between the callback and the settlement.)
UiConnectFinally(k) ==
    /\ uops[k].phase = "settled"
    /\ uops' = [uops EXCEPT ![k] = UiCollected]
    /\ uiConnecting' = FALSE
    /\ connectionPromise' = 0
    /\ ev' = [Ev("ui.connect.return", "ui", uops[k].w) EXCEPT !.ok = uops[k].ok,
                 !.accounts = uops[k].accounts, !.cause = uops[k].cause, !.op = k,
                 !.callers = uops[k].callers,
                 !.out = IF uops[k].ok THEN "resolved" ELSE "rejected",
                 !.val = IF uops[k].ok THEN NULL ELSE uops[k].cause]
    /\ UNCHANGED <<regVars, uiError, uiName, uiCache>>

\* new UiWalletConnect(uiWallet), with no store listening to the registry.
UiInit ==
    /\ registered \in InitSnapshots
    /\ regRef = 1
    /\ nextRef = 2
    /\ listeners = {}
    /\ changeListeners = [w \in Wallets |-> 0]
    /\ uiConnecting = FALSE
    /\ uiError = NULL
    /\ connectionPromise = 0
    /\ uiName \in Names
    /\ uops = << >>
    /\ uiCache = [w \in Wallets |-> 0]

UiOnly == UNCHANGED <<connVars, storeVars, uiStoreVars, uiDisVars>>

UiNext ==
    \/ \E w \in Wallets : Register(w) /\ UNCHANGED <<connVars, uiVars, uiStoreVars, uiDisVars>>
    \/ \E w \in Wallets : Unregister(w) /\ UNCHANGED <<connVars, uiVars, uiStoreVars, uiDisVars>>
    \/ UiConnectPending /\ UiOnly
    \/ UiConnectNotFound /\ UiOnly
    \/ UiConnectNoFeature /\ UiOnly
    \/ UiConnectInvoke /\ UiOnly
    \/ \E k \in 1..Len(uops), l \in AccountLists : UiConnectSettle(k, TRUE, l, NULL) /\ UiOnly
    \/ \E k \in 1..Len(uops), e \in ConnectErrors : UiConnectSettle(k, FALSE, << >>, e) /\ UiOnly
    \/ \E k \in 1..Len(uops) : UiConnectFinally(k) /\ UiOnly

UiSpecInit ==
    UiInit /\ ConnInit /\ StoreInitEmpty /\ UiStoreInitEmpty /\ UiDisInitEmpty /\ ev = NoEv

\* A UiWalletConnect helper over a registry whose wallets come and go.
UiSpec == UiSpecInit /\ [][UiNext]_vars

\* ------------------------------------------------------------ UiWalletDisconnect
\* disconnect() while a disconnectionPromise is held: that promise is returned.
UiDisconnectPending ==
    /\ disconnectionPromise # 0
    /\ udops[disconnectionPromise].callers < 1 + MaxUiJoins
    /\ udops' = [udops EXCEPT ![disconnectionPromise].callers = @ + 1]
    /\ ev' = [Ev("ui.disconnect", "ui", udops[disconnectionPromise].w) EXCEPT
                 !.out = "pending", !.op = disconnectionPromise]
    /\ UNCHANGED <<regVars, uiDisconnecting, uiDisError, disconnectionPromise, uiVars>>

\* disconnect() finding no wallet of its name in the registry: throws after
\* disconnecting was set and error cleared.
UiDisconnectNotFound ==
    /\ disconnectionPromise = 0
    /\ FindWallet(registered, uiName) = NULL
    /\ uiDisconnecting' = TRUE
    /\ uiDisError' = NULL
    /\ ev' = [Ev("ui.disconnect", "ui", NULL) EXCEPT !.out = "rejected",
                 !.val = NotFoundError, !.calls = <<<<"get", "registry">>>>]
    /\ UNCHANGED <<regVars, disconnectionPromise, udops, uiVars>>

\* disconnect() whose wallet handle does not list the disconnect feature:
\* getWalletFeature throws.
UiDisconnectNoFeature ==
    /\ disconnectionPromise = 0
    /\ FindWallet(registered, uiName) # NULL
    /\ ~HasFeature(FindWallet(registered, uiName), StandardDisconnect)
    /\ uiDisconnecting' = TRUE
    /\ uiDisError' = NULL
    /\ uiCache' = GetOrCreateUiWallet(FindWallet(registered, uiName))
    /\ ev' = [Ev("ui.disconnect", "ui", FindWallet(registered, uiName)) EXCEPT
                 !.out = "rejected", !.val = FeatureUnimplemented,
                 !.calls = <<<<"get", "registry">>>>]
    /\ UNCHANGED <<regVars, disconnectionPromise, udops, uiConnecting, uiError,
                   connectionPromise, uiName, uops>>

\* disconnect() invoking the disconnect capability of the wallet it resolved.
UiDisconnectInvoke ==
    /\ disconnectionPromise = 0
    /\ FindWallet(registered, uiName) # NULL
    /\ HasFeature(FindWallet(registered, uiName), StandardDisconnect)
    /\ Len(udops) < MaxUiOps
    /\ uiDisconnecting' = TRUE
    /\ uiDisError' = NULL
    /\ uiCache' = GetOrCreateUiWallet(FindWallet(registered, uiName))
    /\ udops' = Append(udops, [w |-> FindWallet(registered, uiName), phase |-> "pending",
                               ok |-> FALSE, cause |-> NULL, callers |-> 1])
    /\ disconnectionPromise' = Len(udops) + 1
    /\ ev' = [Ev("ui.disconnect", "ui", FindWallet(registered, uiName)) EXCEPT
                 !.out = "pending", !.own = TRUE, !.op = Len(udops) + 1,
                 !.calls = <<<<"get", "registry">>,
                             <<StandardDisconnect, FindWallet(registered, uiName)>>>>]
    /\ UNCHANGED <<regVars, uiConnecting, uiError, connectionPromise, uiName, uops>>

\* The wallet settles the promise: on a rejection .catch stores the error and
\* rethrows.
UiDisconnectSettle(k, ok, cause) ==
    /\ udops[k].phase = "pending"
    /\ udops' = [udops EXCEPT ![k].phase = "settled", ![k].ok = ok, ![k].cause = cause]
    /\ uiDisError' = IF ok THEN uiDisError ELSE CaughtError(cause)
    /\ ev' = [Ev("ui.disconnect.settle", "ui", udops[k].w) EXCEPT !.ok = ok,
                 !.cause = cause, !.op = k]
    /\ UNCHANGED <<regVars, uiDisconnecting, disconnectionPromise, uiVars>>

UiDisCollected == [w |-> NULL, phase |-> "collected", ok |-> FALSE, cause |-> NULL,
                   callers |-> 0]

\* .finally(() => {...}): the helper is released and the promise chain settles,
\* and with it the promise of every disconnect() call that was handed it.
UiDisconnectFinally(k) ==
    /\ udops[k].phase = "settled"
    /\ udops' = [udops EXCEPT ![k] = UiDisCollected]
    /\ uiDisconnecting' = FALSE
    /\ disconnectionPromise' = 0
    /\ ev' = [Ev("ui.disconnect.return", "ui", udops[k].w) EXCEPT !.ok = udops[k].ok,
                 !.cause = udops[k].cause, !.op = k, !.callers = udops[k].callers,
                 !.out = IF udops[k].ok THEN "resolved" ELSE "rejected",
                 !.val = IF udops[k].ok THEN NULL ELSE udops[k].cause]
    /\ UNCHANGED <<regVars, uiDisError, uiVars>>

\* new UiWalletDisconnect(uiWallet), with no store listening to the registry.
UiDisInit ==
    /\ registered \in InitSnapshots
    /\ regRef = 1
    /\ nextRef = 2
    /\ listeners = {}
    /\ changeListeners = [w \in Wallets |-> 0]
    /\ uiName \in Names
    /\ uiConnecting = FALSE
    /\ uiError = NULL
    /\ connectionPromise = 0
    /\ uops = << >>
    /\ uiCache = [w \in Wallets |-> 0]
    /\ UiDisInitEmpty

UiDisOnly == UNCHANGED <<connVars, storeVars, uiStoreVars>>

UiDisNext ==
    \/ \E w \in Wallets : Register(w) /\ UNCHANGED <<connVars, uiVars, uiStoreVars, uiDisVars>>
    \/ \E w \in Wallets : Unregister(w) /\ UNCHANGED <<connVars, uiVars, uiStoreVars, uiDisVars>>
    \/ UiDisconnectPending /\ UiDisOnly
    \/ UiDisconnectNotFound /\ UiDisOnly
    \/ UiDisconnectNoFeature /\ UiDisOnly
    \/ UiDisconnectInvoke /\ UiDisOnly
    \/ \E k \in 1..Len(udops) : UiDisconnectSettle(k, TRUE, NULL) /\ UiDisOnly
    \/ \E k \in 1..Len(udops), e \in DisconnectErrors : UiDisconnectSettle(k, FALSE, e) /\ UiDisOnly
    \/ \E k \in 1..Len(udops) : UiDisconnectFinally(k) /\ UiDisOnly

UiDisSpecInit == UiDisInit /\ ConnInit /\ StoreInitEmpty /\ UiStoreInitEmpty /\ ev = NoEv

\* A UiWalletDisconnect helper over a registry whose wallets come and go.
UiDisSpec == UiDisSpecInit /\ [][UiDisNext]_vars

\* ------------------------------------------------------------ UiWalletsStore
\* The Identity Cache (the ui-registry package): wallet -> its UiWallet handle,
\* created on the first derivation and returned by every later one.
GetOrCreate(cache, w) ==
    IF cache[w] # 0
      THEN cache
      ELSE [cache EXCEPT ![w] = 1 + Cardinality({x \in Wallets : cache[x] # 0})]

\* rawWallets.map(getOrCreateUiWalletForStandardWallet): the handles in order, and
\* the cache after the derivations
MapWithoutCache(q, cache) ==
    LET base == CHOOSE v \in {cache[x] : x \in Wallets} : \A y \in Wallets : cache[y] <= v
        at(x) == CHOOSE i \in 1..Len(q) : q[i] = x
    IN  [cache |-> [x \in Wallets |-> IF x \in Range(q) THEN base + at(x) ELSE cache[x]],
         out |-> [i \in 1..Len(q) |-> base + i]]
RECURSIVE MapThroughCache(_, _)
MapThroughCache(q, cache) ==
    IF q = << >>
      THEN [cache |-> cache, out |-> << >>]
      ELSE LET c1 == GetOrCreate(cache, Head(q))
               r == MapThroughCache(Tail(q), c1)
           IN  [cache |-> r.cache, out |-> <<c1[Head(q)]>> \o r.out]

\* The registry channels setupWalletListeners() subscribes to.
UiStoreChannelsRegisterOnly == <<"register">>
UiStoreChannels == <<"register", "unregister">>

\* The store has its registry listeners: constructed and not destroyed.
UiLive == uiDisposers # << >>

\* loadWallets(), as run by the store's registry callbacks after the registry changed.
LoadWalletsOn(kind) ==
    IF kind \in uiListeners
      THEN /\ uiWallets' = MapThroughCache(registered', uiCache).out
           /\ uiCache' = MapThroughCache(registered', uiCache).cache
           /\ uiLoads' = uiLoads + 1
      ELSE UNCHANGED <<uiWallets, uiCache, uiLoads>>

UiStoreRest ==
    UNCHANGED <<connVars, uiConnecting, uiError, connectionPromise, uiName, uops, uiDisVars>>

\* A wallet registers itself and the store's 'register' callback runs.
UiStoreRegister(w) ==
    /\ Register(w)
    /\ LoadWalletsOn("register")
    /\ UNCHANGED <<uiDisposers, uiListeners, useResult>>
    /\ UiStoreRest

\* A wallet is removed and the store's 'unregister' callback runs.
UiStoreUnregister(w) ==
    /\ Unregister(w)
    /\ LoadWalletsOn("unregister")
    /\ UNCHANGED <<uiDisposers, uiListeners, useResult>>
    /\ UiStoreRest

\* useWallets(): the registry's snapshot mapped through the cache.
UseWallets ==
    /\ useResult' = MapThroughCache(registered, uiCache).out
    /\ uiCache' = MapThroughCache(registered, uiCache).cache
    /\ ev' = [Ev("useWallets", "-", NULL) EXCEPT !.calls = <<<<"get", "registry">>>>]
    /\ UNCHANGED <<regVars, storeVars, uiWallets, uiDisposers, uiListeners, uiLoads>>
    /\ UiStoreRest

\* UiWalletsStore.destroy(): every disposer is called, then the list is emptied.
UiStoreDestroy ==
    /\ uiListeners' = uiListeners \ Range(uiDisposers)
    /\ uiDisposers' = << >>
    /\ ev' = [Ev("ui.destroy", "-", NULL) EXCEPT
                 !.calls = [i \in 1..Len(uiDisposers) |-> <<"dispose", uiDisposers[i]>>]]
    /\ UNCHANGED <<regVars, storeVars, uiWallets, useResult, uiCache, uiLoads>>
    /\ UiStoreRest

\* new UiWalletsStore(): loadWallets() on an empty cache, then setupWalletListeners().
UiStoreInit ==
    /\ registered \in InitSnapshots
    /\ regRef = 1
    /\ nextRef = 2
    /\ listeners = {}
    /\ changeListeners = [w \in Wallets |-> 0]
    /\ uiWallets = MapThroughCache(registered, [w \in Wallets |-> 0]).out
    /\ uiCache = MapThroughCache(registered, [w \in Wallets |-> 0]).cache
    /\ uiDisposers = UiStoreChannels
    /\ uiListeners = Range(UiStoreChannels)
    /\ useResult = << >>
    /\ uiLoads = 1
    /\ uiConnecting = FALSE
    /\ uiError = NULL
    /\ connectionPromise = 0
    /\ uiName = "Acme"
    /\ uops = << >>
    /\ ev = [NoEv EXCEPT !.calls = <<<<"get", "registry">>, <<"on", "register">>,
                                      <<"on", "unregister">>>>]

UiStoreNext ==
    \/ \E w \in Wallets : UiStoreRegister(w)
    \/ \E w \in Wallets : UiStoreUnregister(w)
    \/ UseWallets
    \/ UiStoreDestroy

UiStoreSpecInit == UiStoreInit /\ ConnInit /\ StoreInitEmpty /\ UiDisInitEmpty

\* A UiWalletsStore and useWallets() over a registry whose wallets come and go.
UiStoreSpec == UiStoreSpecInit /\ [][UiStoreNext]_vars

\* ------------------------------------------------------------ both stores
\* new WalletsStore() and new UiWalletsStore() over the same registry.
AppInit ==
    /\ registered \in InitSnapshots
    /\ regRef = 1
    /\ nextRef = 2
    /\ wallets = Get(regRef, registered)
    /\ disposers = <<"register", "unregister">>
    /\ listeners = {"register", "unregister"}
    /\ eventDisposers = WithEvents(registered)
    /\ changeListeners = [w \in Wallets |-> Count(WithEvents(registered), w)]
    /\ uiWallets = MapThroughCache(registered, [w \in Wallets |-> 0]).out
    /\ uiCache = MapThroughCache(registered, [w \in Wallets |-> 0]).cache
    /\ uiDisposers = UiStoreChannels
    /\ uiListeners = Range(UiStoreChannels)
    /\ useResult = << >>
    /\ uiLoads = 1
    /\ uiConnecting = FALSE
    /\ uiError = NULL
    /\ connectionPromise = 0
    /\ uiName = "Acme"
    /\ uops = << >>
    /\ ConnInit
    /\ UiDisInitEmpty
    /\ ev = NoEv

\* The registry's callbacks of both stores run on a registry event; a wallet's
\* 'change' runs the listeners subscribed on that wallet.
AppNext ==
    \/ \E w \in Wallets : UiStoreRegister(w)
    \/ \E w \in Wallets : UiStoreUnregister(w)
    \/ \E w \in Wallets : Change(w) /\ StoreOnly
    \/ Destroy /\ StoreOnly
    \/ UiStoreDestroy

\* A WalletsStore and a UiWalletsStore over one registry.
AppSpec == AppInit /\ [][AppNext]_vars

\* ------------------------------------------------------------ claims

OutstandingConnects(w) == {k \in 1..Len(ops) : ops[k].w = w /\ ops[k].phase = "pending"}

Cleared(c) == wallet[c] = NULL /\ account[c] = NULL /\ ~connected[c]

\* The step ends with c's wallet, account, connected and error fields all cleared.
ClearedToIdle(c) ==
    wallet'[c] = NULL /\ account'[c] = NULL /\ ~connected'[c] /\ error'[c] = NULL

(* C1: single-flight connect.  At most one connect capability invocation is
   outstanding per wallet, and no step taken while one is outstanding on a wallet
   invokes that wallet's connect capability again, whichever controller calls
   connect(). *)
C1_SingleFlight ==
    [][\A w \in Wallets :
          /\ Cardinality(OutstandingConnects(w)') <= 1
          /\ OutstandingConnects(w) # {} =>
                /\ ~Called(ev', <<StandardConnect, w>>)
                /\ \A k \in (Len(ops) + 1)..Len(ops') : ops'[k].w # w]_vars

\* Controller B awaits the operation controller A started, which is still outstanding.
C1_Witness ==
    \E w \in Wallets : \E k \in OutstandingConnects(w) :
        /\ ops[k].owner = "A"
        /\ pc["B"].at = "adopt"
        /\ pc["B"].op = k

(* C2: a disconnect() of a connected controller (with no connect() in progress)
   whose capability rejects with cause e ends with wallet = null, account = null,
   connected = false and error = e. *)
C2_DisconnectRejectStillClears ==
    (ev.act = "disconnect.return" /\ ~ev.ok /\ ~connecting[ev.c]) =>
        /\ Cleared(ev.c)
        /\ error[ev.c] = ev.cause

(* C3, as claimed: when the connect capability invocation started by connect()
   rejects, connect() rejects to its caller with that cause. *)
C3_ConnectRejectsToCaller ==
    (ev.act = "connect.return" /\ ev.own /\ ~ev.ok) =>
        /\ ev.out = "rejected"
        /\ ev.val = ev.cause

(* C3, amended: when the connect capability invocation started by connect() rejects
   with cause e, connect() still resolves to its caller; the cause is recorded in
   the error field and connecting is false. *)
C3_ConnectFailureSwallowed ==
    (ev.act = "connect.return" /\ ev.own /\ ~ev.ok) =>
        /\ ev.out = "resolved"
        /\ error[ev.c] = ev.cause
        /\ ~connecting[ev.c]

C3_Witness ==
    /\ ev.act = "connect.return"
    /\ ev.own
    /\ ~ev.ok
    /\ ev.cause \in ConnectErrors
    /\ error[ev.c] = ev.cause

(* C4: for a controller that was Idle when connect(w) was called (and on which no
   disconnect ran meanwhile), a connect whose operation resolved with a list of
   accounts ends with wallet = w, account = the first account of the list (null
   for an empty list), connected = true, connecting = false and error = null. *)
C4_ConnectSuccess ==
    (ev.act = "connect.return" /\ ev.ok /\ ev.solo) =>
        /\ wallet[ev.c] = ev.w
        /\ account[ev.c] = (IF ev.accounts = << >> THEN NULL ELSE Head(ev.accounts))
        /\ connected[ev.c]
        /\ ~connecting[ev.c]
        /\ error[ev.c] = NULL

C4_Witness ==
    /\ ev.act = "connect.return"
    /\ ev.ok
    /\ ev.solo
    /\ Len(ev.accounts) = 2
    /\ account[ev.c] = "acc1"
    /\ wallet[ev.c] = "w2"

(* C5: for a controller that was Idle when connect(w) was called, a connect whose
   operation rejected with cause e ends with error = e, wallet = null, account =
   null, connected = false and connecting = false. *)
C5_ConnectFailure ==
    (ev.act = "connect.return" /\ ~ev.ok /\ ev.solo) =>
        /\ error[ev.c] = ev.cause
        /\ Cleared(ev.c)
        /\ ~connecting[ev.c]

C5_Witness ==
    /\ ev.act = "connect.return"
    /\ ~ev.ok
    /\ ev.solo
    /\ ev.own
    /\ error[ev.c] = "connectErr"
    /\ wallet[ev.c] = NULL

(* C6: connect(w) called on an Idle controller with a wallet that lacks the connect
   capability invokes nothing, resolves, leaves the controller Idle and leaves the
   in-flight table as it was. *)
C6_ConnectNoFeature ==
    [][(/\ ev'.act = "connect"
        /\ ev'.w \in Wallets
        /\ StandardConnect \notin Features(ev'.w)
        /\ Idle(ev'.c))
       => /\ ev'.calls = << >>
          /\ ev'.out = "resolved"
          /\ Len(ops') = Len(ops)
          /\ connectionPromises' = connectionPromises
          /\ wallet'[ev'.c] = NULL
          /\ account'[ev'.c] = NULL
          /\ ~connecting'[ev'.c]
          /\ ~connected'[ev'.c]
          /\ error'[ev'.c] = NULL]_vars

C6_Witness ==
    /\ ev.act = "connect"
    /\ ev.w = "w3"
    /\ ev.solo
    /\ ev.out = "resolved"
    /\ Idle(ev.c)
    /\ Len(ops) > 0

(* C7: a disconnect() that acts on a connected wallet invokes the disconnect
   capability exactly once when the wallet has it and never otherwise; when the
   capability resolves, or the wallet has none, the controller ends with wallet =
   null, account = null, connected = false and error = null. *)
C7_DisconnectClears ==
    [][/\ (ev'.act = "disconnect" /\ ev'.w \in Wallets
              /\ StandardDisconnect \in Features(ev'.w))
          => /\ Len(dops') = Len(dops) + 1
             /\ ev'.calls = <<<<StandardDisconnect, ev'.w>>>>
       /\ (ev'.act = "disconnect" /\ ev'.w \in Wallets
              /\ StandardDisconnect \notin Features(ev'.w))
          => /\ Len(dops') = Len(dops)
             /\ ev'.calls = << >>
             /\ ClearedToIdle(ev'.c)
       /\ (ev'.act = "disconnect.return")
          => /\ Len(dops') = Len(dops)
             /\ ev'.calls = << >>
             /\ ev'.ok => ClearedToIdle(ev'.c)]_vars

\* A disconnect whose capability resolved, on a controller that had connected to w1.
C7_Witness ==
    /\ ev.act = "disconnect.return"
    /\ ev.ok
    /\ ev.w = "w1"
    /\ Cleared(ev.c)
    /\ error[ev.c] = NULL

(* C8: a connect() through the helper that resolves its wallet by name (no earlier
   connect() of the helper is pending) and finds no wallet of that name in the
   registry's snapshot rejects with the not-found error, records that error in the
   error field, leaves connecting = false and invokes no capability. *)
C8_ProviderNotFound ==
    [][(/\ ev'.act = "ui.connect"
        /\ connectionPromise = 0
        /\ \A i \in 1..Len(registered) : Name(registered[i]) # uiName)
       => /\ ev'.out = "rejected"
          /\ ev'.val = NotFoundError
          /\ uiError' = NotFoundError
          /\ ~uiConnecting'
          /\ ev'.calls = <<<<"get", "registry">>>>
          /\ uops' = uops
          /\ connectionPromise' = 0]_vars

\* The helper's wallet left the registry, another one is still there, and the
\* call was rejected.
C8_Witness ==
    /\ ev.act = "ui.connect"
    /\ ev.out = "rejected"
    /\ uiError = NotFoundError
    /\ uiName = "Acme"
    /\ registered = <<"w3">>
    /\ ~uiConnecting

(* C9: while the store is live, the list it exposes equals the registry's snapshot
   (same elements, same order): at construction and after every 'register' and
   'unregister' event. *)
C9_StoreEqualsSnapshot ==
    Live => wallets.elems = registered

C9_Witness ==
    /\ Live
    /\ ev.act = "unregister"
    /\ registered = <<"w3", "w2">>
    /\ wallets.elems = registered

(* C10: when a wallet of the live store's list fires 'change', the list is replaced
   by an array that did not exist before, holding the same elements in the same
   order; the registry is not read and no listener is added or removed. *)
C10_ChangeReplacesList ==
    [][(/\ ev'.act = "change"
        /\ Live
        /\ ev'.w \in Range(wallets.elems))
       => /\ wallets'.elems = wallets.elems
          /\ wallets'.ref # wallets.ref
          /\ wallets'.ref >= nextRef
          /\ ev'.calls = << >>
          /\ UNCHANGED <<registered, regRef, listeners, changeListeners, disposers,
                         eventDisposers>>]_vars

C10_Witness ==
    /\ ev.act = "change"
    /\ Live
    /\ ev.w \in Range(wallets.elems)
    /\ Len(wallets.elems) = 2
    /\ wallets.ref # regRef

\* The unsubscribe calls that cancel the subscriptions named in held, in order.
Disposals(held) == [i \in 1..Len(held) |-> <<"dispose", held[i]>>]

(* C11: destroy() calls every unsubscribe function the store holds, the two registry
   ones and the one of every wallet it listens to, each exactly once, and leaves no
   subscription behind; the store never holds an unsubscribe function that was
   already called or holds one twice, and a destroy() after the first calls none and
   changes nothing. *)
C11_DestroyIdempotent ==
    [][/\ listeners' = Range(disposers')
       /\ \A w \in Wallets : /\ changeListeners'[w] = Count(eventDisposers', w)
                              /\ Count(eventDisposers', w) <= 1
       /\ ev'.act = "destroy" =>
             /\ ev'.calls = Disposals(disposers) \o Disposals(eventDisposers)
             /\ disposers' = << >>
             /\ eventDisposers' = << >>
             /\ listeners' = {}
             /\ \A w \in Wallets : changeListeners'[w] = 0
             /\ ~Live => /\ ev'.calls = << >>
                         /\ UNCHANGED <<regVars, storeVars>>]_vars

\* A second destroy(), on a store whose registry still holds wallets with events.
C11_Witness ==
    /\ ev.act = "destroy"
    /\ ev.calls = << >>
    /\ ~Live
    /\ WithEvents(registered) # << >>
    /\ listeners = {}
    /\ \A w \in Wallets : changeListeners[w] = 0

\* A promise c's connect() awaits has settled and the continuation has not run yet:
\* the state is in the middle of a chain of promise reactions.
Settling(c) == pc[c].at # "none" /\ ops[pc[c].op].phase # "pending"

(* C12: whenever a controller is not in the middle of a chain of promise reactions,
   its state is exactly one of Idle, Connecting, Connected, Error: connecting = true,
   connected = true and error != null are pairwise mutually exclusive. *)
C12_OneOfFour ==
    \A c \in Ctrls :
        ~Settling(c) =>
            /\ ~(connecting[c] /\ connected[c])
            /\ ~(connected[c] /\ error[c] # NULL)
            /\ ~(connecting[c] /\ error[c] # NULL)

\* The handles the cache holds for the wallets of a snapshot, in order.
Derived(snapshot, cache) == [i \in 1..Len(snapshot) |-> cache[snapshot[i]]]

(* C13: while the UiWalletsStore is live (at construction and after every
   'register' and 'unregister' event), the sequence it exposes is the registry's
   snapshot mapped element by element through the Identity Cache: same length, same
   order, the i-th handle is the derivation of the i-th wallet. *)
C13_PublicEqualsMappedSnapshot ==
    UiLive =>
        /\ Len(uiWallets) = Len(registered)
        /\ \A i \in 1..Len(registered) :
              /\ uiCache[registered[i]] # 0
              /\ uiWallets[i] = uiCache[registered[i]]

\* After w3 left and w2 joined a registry that held w1 and w3.
C13_Witness ==
    /\ UiLive
    /\ ev.act = "register"
    /\ registered = <<"w1", "w2">>
    /\ uiWallets = <<1, 3>>

\* Where wallet w stands in a snapshot.
Positions(snapshot, w) == {i \in 1..Len(snapshot) : snapshot[i] = w}

(* C14: identity stability.  A wallet that has a handle keeps that handle in every
   later derivation, and no two wallets share a handle; so a wallet that is in the
   registry before and after a step is represented by the same handle in the live
   store's list before and after it, and useWallets() returns, for every wallet of
   the snapshot, the handle the cache holds and the live store shows. *)
C14_IdentityStable ==
    [][/\ \A w \in Wallets : uiCache[w] # 0 => uiCache'[w] = uiCache[w]
       /\ \A w, x \in Wallets : (uiCache'[w] # 0 /\ uiCache'[w] = uiCache'[x]) => w = x
       /\ (UiLive /\ UiLive') =>
             \A w \in Wallets :
                 \A i \in Positions(registered, w), j \in Positions(registered', w) :
                     uiWallets'[j] = uiWallets[i]
       /\ ev'.act = "useWallets" =>
             /\ useResult' = Derived(registered, uiCache')
             /\ \A i \in 1..Len(registered) : useResult'[i] # 0
             /\ UiLive => useResult' = uiWallets]_vars

\* w1 stayed in the registry while w3 left and w2 joined; then useWallets() was called.
C14_Witness ==
    /\ ev.act = "useWallets"
    /\ UiLive
    /\ registered = <<"w1", "w2">>
    /\ useResult = <<1, 3>>
    /\ uiWallets = useResult
    /\ uiCache["w3"] = 2

(* C15: a connect() call of the helper made while an earlier call's capability
   invocation is pending invokes no capability and is handed the pending
   operation's promise; every call handed an operation's promise settles with that
   operation's result: resolved with its account list, or rejected with its cause. *)
C15_UiSingleFlight ==
    [][/\ (/\ ev'.act = "ui.connect"
           /\ connectionPromise # 0
           /\ uops[connectionPromise].phase = "pending")
          => /\ ev'.calls = << >>
             /\ Len(uops') = Len(uops)
             /\ ev'.op = connectionPromise
             /\ ev'.out = "pending"
             /\ uops'[connectionPromise].callers = uops[connectionPromise].callers + 1
       /\ ev'.act = "ui.connect.return"
          => /\ uops[ev'.op].phase = "settled"
             /\ ev'.out = (IF uops[ev'.op].ok THEN "resolved" ELSE "rejected")
             /\ uops[ev'.op].ok => ev'.accounts = uops[ev'.op].accounts
             /\ ~uops[ev'.op].ok => ev'.val = uops[ev'.op].cause]_vars

\* Three calls shared one invocation and have settled with its two accounts.
C15_Witness ==
    /\ ev.act = "ui.connect.return"
    /\ ev.out = "resolved"
    /\ Len(ev.accounts) = 2
    /\ ev.callers = 3
    /\ Len(uops) = 1
    /\ ~uiConnecting

(* C16: a connect() call of the helper that has not settled leaves connecting =
   true; a call that has settled leaves connecting = false, and one that settled by
   rejecting (wallet not found, capability lookup failure, capability invocation
   failure) leaves error non-null. *)
C16_UiConnectingUntilSettled ==
    /\ (ev.act = "ui.connect" /\ ev.out = "pending") => uiConnecting
    /\ (ev.act \in {"ui.connect", "ui.connect.return"} /\ ev.out \in {"resolved", "rejected"})
          => /\ ~uiConnecting
             /\ ev.out = "rejected" => uiError # NULL

\* The operations of the list o on wallet w that are invoked and not yet cleaned up.
InFlight(o, w) ==
    {k \in 1..Len(o) : o[k].w = w /\ o[k].phase \in {"pending", "then", "rejected"}}

(* C17: the in-flight table holds an entry for wallet w exactly while a connect
   invocation on w is started and not yet cleaned up, and the entry is that
   operation's; an entry only ever leaves the table in the finally step of its own
   operation, after that operation settled (resolved or rejected); so when no
   operation is in flight the table is empty. *)
C17_TableLifetime ==
    [][\A w \in Wallets :
          /\ connectionPromises'[w] # 0 <=> InFlight(ops', w) # {}
          /\ connectionPromises'[w] # 0 => InFlight(ops', w) = {connectionPromises'[w]}
          /\ (connectionPromises[w] # 0 /\ connectionPromises'[w] # connectionPromises[w])
                => /\ connectionPromises'[w] = 0
                   /\ ev'.act = "connect.finally"
                   /\ ev'.w = w
                   /\ ops[connectionPromises[w]].phase \in {"then", "rejected"}
                   /\ ops'[connectionPromises[w]].phase = "done"]_vars

\* A rejected operation was cleaned up while another wallet's operation is pending.
C17_Witness ==
    /\ ev.act = "connect.finally"
    /\ ~ev.ok
    /\ connectionPromises[ev.w] = 0
    /\ \E w \in Wallets : /\ connectionPromises[w] # 0
                           /\ ops[connectionPromises[w]].phase = "pending"

(* C18: adoption.  When a controller that was Idle called connect(w) while another
   controller's invocation on w was in flight, its connect() ends as that
   invocation did: resolved, with wallet = w, account = the first account of the
   operation's list and connected = true, as the invoking controller was set by
   the operation; rejected with cause e, with error = e, connected = false and
   wallet = null, as the invoking controller was left; in both cases with
   connecting = false.  (The invoking controller's own return is C4 and C5.) *)
C18_Adoption ==
    [][(ev'.act = "connect.return" /\ ~ev'.own /\ ev'.solo) =>
          LET b == ev'.c
              k == pc[b].op
              a == ops[k].owner
          IN  /\ a # b
              /\ ops[k].w = ev'.w
              /\ ~connecting'[b]
              /\ ops[k].ok =>
                    /\ wallet'[b] = ops[k].w
                    /\ account'[b] = (IF ops[k].accounts = << >> THEN NULL
                                                                ELSE Head(ops[k].accounts))
                    /\ connected'[b]
                    /\ error'[b] = NULL
                    /\ (pc[a].op = k /\ pc[a].solo) =>
                          /\ wallet'[a] = wallet'[b]
                          /\ account'[a] = account'[b]
                          /\ connected'[a]
              /\ ~ops[k].ok =>
                    /\ error'[b] = ops[k].cause
                    /\ ~connected'[b]
                    /\ wallet'[b] = NULL
                    /\ (pc[a].op = k /\ pc[a].solo) =>
                          /\ wallet'[a] = NULL
                          /\ ~connected'[a]]_vars

\* A invoked, B adopted, the operation resolved and both calls returned.
C18_Witness ==
    /\ ev.act = "connect.return"
    /\ ~ev.own
    /\ ev.solo
    /\ ev.c = "B"
    /\ ev.ok
    /\ wallet["A"] = "w1" /\ wallet["B"] = "w1"
    /\ account["A"] = "acc1" /\ account["B"] = "acc1"
    /\ connected["A"] /\ connected["B"]
    /\ ~connecting["A"] /\ ~connecting["B"]

(* C19: a late-settling disconnect never clears the state written by a later
   connect.  When disconnect() was called on a controller connected to w1, then
   connect(w2) was called, succeeded and returned while the disconnect capability
   was still pending, the controller is Connected with wallet = w2 once the
   disconnect capability has settled too. *)
C19_LaterConnectWins ==
    [][\A i \in 1..Len(dops) :
          LET c == dops[i].c IN
          (/\ ev'.act = "disconnect.return"
           /\ dops[i].phase = "pending"
           /\ dops'[i].phase = "done"
           /\ dops[i].next # NULL
           /\ dops[i].next # dops[i].w
           /\ wallet[c] = dops[i].next
           /\ connected[c]
           /\ ~connecting[c]
           /\ PendingDisconnects(c) = {i})
          => /\ wallet'[c] = dops[i].next
             /\ connected'[c]]_vars

\* The steps that belong to a disconnect() call.
DisconnectActs == {"disconnect", "disconnect.return"}

(* C20: the connected field of a controller goes from false to true only in a step
   taken while its connecting field is true; its error field is set to a cause by a
   step of connect() only while connecting is true; and connected goes from true to
   false only in a step of a disconnect() call of that controller. *)
C20_Transitions ==
    [][\A c \in Ctrls :
          /\ (~connected[c] /\ connected'[c]) => connecting[c]
          /\ (error'[c] # error[c] /\ error'[c] # NULL /\ ev'.act \notin DisconnectActs)
                => connecting[c]
          /\ (connected[c] /\ ~connected'[c])
                => (ev'.act \in DisconnectActs /\ ev'.c = c)]_vars

\* A controller went Idle -> Connecting -> Connected -> Idle: it connected to w2
\* and its disconnect() (w2 has no disconnect capability) cleared it.
C20_Witness ==
    /\ ev.act = "disconnect"
    /\ ev.w = "w2"
    /\ ev.ok
    /\ Idle(ev.c)
    /\ Len(ops) >= 1

(* C26: in every state of a controller driven by connect() and disconnect(),
   connected = true exactly when wallet is not null, and account is not null only
   when wallet is not null. *)
C26_ConnectedIffWallet ==
    \A c \in Ctrls :
        /\ connected[c] <=> wallet[c] # NULL
        /\ account[c] # NULL => wallet[c] # NULL

\* Connected to a wallet that listed no account, after an earlier disconnect.
C26_Witness ==
    \E c \in Ctrls :
        /\ connected[c]
        /\ wallet[c] = "w2"
        /\ account[c] = NULL
        /\ ~connecting[c]
        /\ \E i \in 1..Len(dops) : dops[i].phase = "done"

(* C28: disconnect() on a controller whose wallet is null invokes no capability,
   resolves at once and leaves wallet, account, connecting, connected and error as
   they were; a recorded error is kept. *)
C28_DisconnectNoWalletNoOp ==
    [][(ev'.act = "disconnect" /\ wallet[ev'.c] = NULL) =>
          /\ ev'.calls = << >>
          /\ ev'.out = "resolved"
          /\ Len(dops') = Len(dops)
          /\ Len(ops') = Len(ops)
          /\ wallet'[ev'.c] = wallet[ev'.c]
          /\ account'[ev'.c] = account[ev'.c]
          /\ connecting'[ev'.c] = connecting[ev'.c]
          /\ connected'[ev'.c] = connected[ev'.c]
          /\ error'[ev'.c] = error[ev'.c]]_vars

\* disconnect() was called on a controller whose connect had failed.
C28_Witness ==
    /\ ev.act = "disconnect"
    /\ ev.w = NULL
    /\ wallet[ev.c] = NULL
    /\ error[ev.c] = "connectErr"
    /\ ~connected[ev.c]

(* C25: when every connect invocation eventually settles, a controller whose
   connecting field is true eventually has it false again: after a success, after a
   failure, and when it adopted another controller's operation. *)
C25_ConnectingEnds ==
    \A c \in Ctrls : connecting[c] ~> ~connecting[c]

\* A controller that adopted another's operation left Connecting after that
\* operation was rejected.
C25_Witness ==
    /\ ev.act = "connect.return"
    /\ ~ev.own
    /\ ~ev.ok
    /\ ~connecting[ev.c]
    /\ \E d \in Ctrls \ {ev.c} : connecting[d]

(* C21: a connect() through the helper that resolves its name to a wallet without
   the connect capability does not reject, and leaves error = null and connecting =
   false. *)
C21_UiNoCapabilityIdle ==
    (/\ ev.act = "ui.connect"
     /\ ev.w \in Wallets
     /\ StandardConnect \notin Features(ev.w))
    => /\ ev.out # "rejected"
       /\ uiError = NULL
       /\ ~uiConnecting

(* C24: a connect() of the helper that invokes a capability invokes the one of the
   first wallet, in the registry's snapshot at the time of the call, whose name is
   the helper's wallet name, and of no other; a wallet the registry no longer lists
   is not invoked, whatever handle was derived from it before. *)
C24_ResolvesByName ==
    [][(ev'.act = "ui.connect" /\ ev'.own) =>
          /\ \E i \in 1..Len(registered) :
                /\ registered[i] = ev'.w
                /\ Name(registered[i]) = uiName
                /\ \A j \in 1..(i - 1) : Name(registered[j]) # uiName
          /\ \A i \in 1..Len(ev'.calls) :
                ev'.calls[i][1] = StandardConnect => ev'.calls[i][2] = ev'.w
          /\ Called(ev', <<StandardConnect, ev'.w>>)
          /\ Len(uops') = Len(uops) + 1
          /\ uops'[Len(uops')].w = ev'.w]_vars

\* The helper first connected through w1; the registry then replaced w1 by w2, a
\* new instance of the same name, and the next connect() invoked w2.
C24_Witness ==
    /\ ev.act = "ui.connect"
    /\ ev.own
    /\ ev.w = "w2"
    /\ uiName = "Acme"
    /\ "w1" \notin Range(registered)
    /\ uiCache["w1"] # 0
    /\ Len(uops) = 2

(* C22: while the store is live, the 'change' listeners it holds are exactly one on
   each wallet of its current list that has the events feature: none on a wallet
   that left the list or has no events feature, none twice, and the disposers it
   keeps are those of exactly these listeners. *)
C22_SubscriptionsTrackMembership ==
    Live =>
      /\ wallets.elems = registered
      /\ \A w \in Wallets :
            changeListeners[w] =
              IF w \in Range(wallets.elems) /\ StandardEvents \in Features(w)
                THEN 1 ELSE 0
      /\ \A w \in Wallets : Count(eventDisposers, w) = changeListeners[w]

\* w1 was subscribed at construction and has been unregistered: its listener is
\* gone while w3, still listed, keeps exactly one.
C22_Witness ==
    /\ Live
    /\ ev.act = "unregister"
    /\ registered = <<"w3">>
    /\ Called(ev, <<"dispose", "w1">>)
    /\ changeListeners["w1"] = 0
    /\ changeListeners["w3"] = 1

(* C23: whenever the live WalletsStore replaces its array, the live UiWalletsStore
   maps and publishes its array again in the same step, and what it publishes is
   derived from the WalletsStore's new array. *)
C23_PublicFollowsProvider ==
    [][(Live /\ UiLive /\ wallets'.ref # wallets.ref) =>
          /\ uiLoads' = uiLoads + 1
          /\ uiWallets' = MapThroughCache(wallets'.elems, uiCache).out]_vars

(* C27: a disconnect() of the helper that finds no wallet of its name in the
   registry's snapshot rejects, and leaves the failure in error and disconnecting =
   false. *)
C27_UiDisconnectNotFoundReleases ==
    (ev.act = "ui.disconnect" /\ ev.w = NULL) =>
       /\ ev.out = "rejected"
       /\ uiDisError # NULL
       /\ ~uiDisconnecting

====
